---- MODULE Spec2Model ----
(***************************************************************************)
(* A model of the Tanova skills taxonomy library                           *)
(* (src/src/python/tanova_skills_taxonomy.py): the skill store built by    *)
(* SkillsTaxonomy.__init__ / _load_taxonomy and the lookup and scoring     *)
(* operations reading it.                                                  *)
(*                                                                         *)
(* Conventions                                                             *)
(*   - a Python str that the code lowercases, splits or searches is a      *)
(*     sequence of one-character strings (<<"J","s">> is 'Js'); a str the  *)
(*     code only compares (category, role, level, demand) is a TLA+ string;*)
(*   - Optional[T] is a sequence of length at most one: None is <<>>,      *)
(*     a value v is <<v>>;                                                 *)
(*   - a float score is an integer number of hundredths (0.70 is 70);      *)
(*   - a dict is a function together with the sequence of its keys in      *)
(*     insertion order where the code iterates over it.                    *)
(***************************************************************************)
EXTENDS Integers, Sequences, FiniteSets, TLC

VARIABLES
    taxonomy_file, \* the file at self.taxonomy_path: absent, or its JSON value
    document,   \* the skill objects of the input file, in iteration order
    loaded,     \* how many of them _load_taxonomy has processed
    status,     \* "loading" | "ready" | "failed"  (position of __init__)
    skills,     \* self.skills: id -> Skill
    order,      \* insertion order of the keys of self.skills
    alias_map,  \* self._alias_map: lowercase name -> id
    call        \* the last call of a public method: [op, args, ret, raised]

vars == <<taxonomy_file, document, loaded, status, skills, order, alias_map, call>>

-----------------------------------------------------------------------------
(* Bounds *)

\* longest input document, in skill objects, of the lookup specification
MaxSkills == 3
\* longest list handed to analyze_gaps / generate_learning_path
MaxList == 2

-----------------------------------------------------------------------------
(* Python values *)

None == <<>>
Some(v) == <<v>>
IsNone(o) == o = <<>>
Val(o) == o[1]

\* Python truthiness of a str: the empty string is falsy
Truthy(s) == Len(s) > 0

\* x in list
InList(x, l) == \E i \in 1..Len(l) : l[i] = x

Range(l) == {l[i] : i \in 1..Len(l)}

\* d[k] = v on a dict
Put(d, k, v) == [x \in DOMAIN d \cup {k} |-> IF x = k THEN v ELSE d[x]]

\* the key order of a dict after d[k] = v: a new key goes last, an old one stays
PutOrder(o, k) == IF InList(k, o) THEN o ELSE Append(o, k)

\* data.get(key, default)
Get(data, key, default) == IF key \in DOMAIN data THEN data[key] ELSE default

EmptyDict == [x \in {} |-> 0]

\* all sequences over S of length at most n
RECURSIVE SeqsUpTo(_, _)
SeqsUpTo(S, n) ==
    IF n = 0 THEN {<<>>}
    ELSE LET shorter == SeqsUpTo(S, n - 1)
         IN  shorter \cup {Append(s, x) : s \in {t \in shorter : Len(t) = n - 1}, x \in S}

-----------------------------------------------------------------------------
(* str.lower() on the characters of the model *)

Chars == {"a", "A", "b", "B", "c", "C", "e", "E", "j", "J", "q", "Q", "s", "S",
          "t", "T", "u", "U", "v", "V", "x", "X", "_", ".", " "}

LowerChar(c) ==
    CASE c = "A" -> "a" [] c = "B" -> "b" [] c = "C" -> "c" [] c = "E" -> "e"
      [] c = "J" -> "j" [] c = "Q" -> "q" [] c = "S" -> "s" [] c = "T" -> "t"
      [] c = "U" -> "u" [] c = "V" -> "v" [] c = "X" -> "x"
      [] OTHER -> c

UpperChar(c) ==
    CASE c = "a" -> "A" [] c = "b" -> "B" [] c = "c" -> "C" [] c = "e" -> "E"
      [] c = "j" -> "J" [] c = "q" -> "Q" [] c = "s" -> "S" [] c = "t" -> "T"
      [] c = "u" -> "U" [] c = "v" -> "V" [] c = "x" -> "X"
      [] OTHER -> c

Lower(s) == [i \in 1..Len(s) |-> LowerChar(s[i])]

\* every spelling of s that differs from it in letter case only
CaseVariants(s) ==
    {t \in [1..Len(s) -> Chars] :
        \A i \in 1..Len(s) : t[i] \in {LowerChar(s[i]), UpperChar(s[i])}}

-----------------------------------------------------------------------------
(* _parse_skill *)

RequiredKeys == {"id", "canonical_name", "category", "subcategory", "description"}

\* data[...] of a missing key raises KeyError
ParseRaises(data) == ~(RequiredKeys \subseteq DOMAIN data)

ParseSkill(data) ==
    [id                 |-> data.id,
     canonical_name     |-> data.canonical_name,
     aliases            |-> Get(data, "aliases", <<>>),
     category           |-> data.category,
     subcategory        |-> data.subcategory,
     tags               |-> Get(data, "tags", <<>>),
     parent_skills      |-> Get(data, "parent_skills", <<>>),
     child_skills       |-> Get(data, "child_skills", <<>>),
     related_skills     |-> Get(data, "related_skills", <<>>),
     transferability    |-> Get(data, "transferability", EmptyDict),
     proficiency_levels |-> Get(data, "proficiency_levels", <<>>),
     typical_roles      |-> Get(data, "typical_roles", <<>>),
     industry_demand    |-> Get(data, "industry_demand", "medium"),
     prerequisites      |-> Get(data, "prerequisites", <<>>)]

-----------------------------------------------------------------------------
(* _load_taxonomy: one iteration of the innermost loop *)

\* an index that keeps the id a key was first given
RECURSIVE MapAliasesKeepFirst(_, _, _)
MapAliasesKeepFirst(m, names, id) ==
    IF names = <<>> THEN m
    ELSE IF Lower(Head(names)) \in DOMAIN m
         THEN MapAliasesKeepFirst(m, Tail(names), id)
         ELSE MapAliasesKeepFirst(Put(m, Lower(Head(names)), id), Tail(names), id)

\* self._alias_map[name.lower()] = id for the names of a sequence, in order
RECURSIVE MapAliases(_, _, _)
MapAliases(m, names, id) ==
    IF names = <<>> THEN m
    ELSE MapAliases(Put(m, Lower(Head(names)), id), Tail(names), id)

AliasMapAfter(m, skill) ==
    MapAliases(m, <<skill.canonical_name>> \o skill.aliases, skill.id)

NoCall == [op |-> "none", args |-> <<>>, ret |-> <<>>, raised |-> FALSE]

\* the file at taxonomy_path: missing, or holding the JSON value data
Absent == [exists |-> FALSE]
File(data) == [exists |-> TRUE, data |-> data]

\* the skill objects the three nested loops visit, in order; a mapping is the
\* sequence of its values (the loops do not use the keys)
RECURSIVE SkillsOfSubcategories(_)
SkillsOfSubcategories(subcategories) ==
    IF subcategories = <<>> THEN <<>>
    ELSE Get(Head(subcategories), "skills", <<>>)
         \o SkillsOfSubcategories(Tail(subcategories))

RECURSIVE SkillsOfCategories(_)
SkillsOfCategories(categories) ==
    IF categories = <<>> THEN <<>>
    ELSE SkillsOfSubcategories(Get(Head(categories), "subcategories", <<>>))
         \o SkillsOfCategories(Tail(categories))

SkillObjects(data) == SkillsOfCategories(Get(data, "categories", <<>>))

\* if not self.taxonomy_path.exists(): raise FileNotFoundError
FileNotFound ==
    /\ status = "loading"
    /\ ~taxonomy_file.exists
    /\ status' = "failed"
    /\ UNCHANGED <<taxonomy_file, document, loaded, skills, order, alias_map, call>>

LoadSkill ==
    /\ status = "loading"
    /\ taxonomy_file.exists
    /\ loaded < Len(document)
    /\ LET data == document[loaded + 1]
       IN  IF ParseRaises(data)
           THEN /\ status' = "failed"
                /\ UNCHANGED <<loaded, skills, order, alias_map>>
           ELSE LET skill == ParseSkill(data)
                IN  /\ skills' = Put(skills, skill.id, skill)
                    /\ order' = PutOrder(order, skill.id)
                    /\ alias_map' = AliasMapAfter(alias_map, skill)
                    /\ loaded' = loaded + 1
                    /\ status' = status
    /\ UNCHANGED <<taxonomy_file, document, call>>

\* the loops are exhausted: __init__ returns the object
FinishLoad ==
    /\ status = "loading"
    /\ taxonomy_file.exists
    /\ loaded = Len(document)
    /\ status' = "ready"
    /\ UNCHANGED <<taxonomy_file, document, loaded, skills, order, alias_map, call>>

-----------------------------------------------------------------------------
(* normalize, find_skill *)

\* normalize looking the name up as spelled, without .lower()
NormalizeAsSpelled(skill_name) ==
    IF skill_name \in DOMAIN alias_map /\ alias_map[skill_name] \in DOMAIN skills
    THEN Some(skills[alias_map[skill_name]].canonical_name)
    ELSE None

\* normalize handing back the name it was given when the lookup fails
NormalizeOrEcho(skill_name) ==
    LET key == Lower(skill_name)
    IN  IF key \in DOMAIN alias_map /\ alias_map[key] \in DOMAIN skills
        THEN Some(skills[alias_map[key]].canonical_name)
        ELSE Some(skill_name)

Normalize(skill_name) ==
    LET key == Lower(skill_name)
    IN  IF key \in DOMAIN alias_map
           /\ Truthy(alias_map[key])
           /\ alias_map[key] \in DOMAIN skills
        THEN Some(skills[alias_map[key]].canonical_name)
        ELSE None

FindSkill(query) ==
    LET key == Lower(query)
    IN  IF key \in DOMAIN alias_map /\ Truthy(alias_map[key])
        THEN IF alias_map[key] \in DOMAIN skills
             THEN Some(skills[alias_map[key]])
             ELSE None
        ELSE None

\* the caller is between two calls
Idle == status = "ready" /\ call.op = "none"

\* a call that records the name it was given in the alias index, with no id
ReturnsCaching(op, args, ret) ==
    /\ Idle
    /\ call' = [op |-> op, args |-> args, ret |-> ret, raised |-> FALSE]
    /\ alias_map' = IF args = <<>> THEN Put(alias_map, <<>>, <<>>)
                    ELSE Put(alias_map, args[1], <<>>)
    /\ UNCHANGED <<taxonomy_file, document, loaded, status, skills, order>>

\* a public method is called on the constructed object and returns ret
Returns(op, args, ret) ==
    /\ Idle
    /\ call' = [op |-> op, args |-> args, ret |-> ret, raised |-> FALSE]
    /\ UNCHANGED <<taxonomy_file, document, loaded, status, skills, order, alias_map>>

\* a public method is called on the constructed object and raises
Raises(op, args) ==
    /\ Idle
    /\ call' = [op |-> op, args |-> args, ret |-> <<>>, raised |-> TRUE]
    /\ UNCHANGED <<taxonomy_file, document, loaded, status, skills, order, alias_map>>

-----------------------------------------------------------------------------
(* get_parents, get_children, get_related, are_related *)

\* the comprehension collecting the records last to first
RECURSIVE StoredSkillsReversed(_)
StoredSkillsReversed(ids) ==
    IF ids = <<>> THEN <<>>
    ELSE IF Head(ids) \in DOMAIN skills
         THEN StoredSkillsReversed(Tail(ids)) \o <<skills[Head(ids)]>>
         ELSE StoredSkillsReversed(Tail(ids))

\* [self.skills[i] for i in ids if i in self.skills]
RECURSIVE StoredSkills(_)
StoredSkills(ids) ==
    IF ids = <<>> THEN <<>>
    ELSE IF Head(ids) \in DOMAIN skills
         THEN <<skills[Head(ids)]>> \o StoredSkills(Tail(ids))
         ELSE StoredSkills(Tail(ids))

GetParents(skill_name) ==
    LET skill == FindSkill(skill_name)
    IN  IF IsNone(skill) THEN <<>> ELSE StoredSkills(Val(skill).parent_skills)

GetChildren(skill_name) ==
    LET skill == FindSkill(skill_name)
    IN  IF IsNone(skill) THEN <<>> ELSE StoredSkills(Val(skill).child_skills)

GetRelated(skill_name) ==
    LET skill == FindSkill(skill_name)
    IN  IF IsNone(skill) THEN <<>> ELSE StoredSkills(Val(skill).related_skills)

\* only the related_skills of the first skill consulted
AreRelatedOneWay(skill1, skill2) ==
    LET s1 == FindSkill(skill1)
        s2 == FindSkill(skill2)
    IN  IF IsNone(s1) \/ IsNone(s2) THEN FALSE
        ELSE IF InList(Val(s2).id, Val(s1).related_skills)
             THEN TRUE
             ELSE Val(s1).subcategory = Val(s2).subcategory

AreRelated(skill1, skill2) ==
    LET s1 == FindSkill(skill1)
        s2 == FindSkill(skill2)
    IN  IF IsNone(s1) \/ IsNone(s2) THEN FALSE
        ELSE IF InList(Val(s2).id, Val(s1).related_skills)
                \/ InList(Val(s1).id, Val(s2).related_skills)
             THEN TRUE
             ELSE Val(s1).subcategory = Val(s2).subcategory

-----------------------------------------------------------------------------
(* get_transferability *)

SameSubcategoryScore == 50
SameCategoryScore == 30

\* the subcategory and category scores tried before the authored maps
GetTransferabilityHeuristicsFirst(from_skill, to_skill) ==
    LET skill == FindSkill(from_skill)
        target == FindSkill(to_skill)
    IN  IF IsNone(skill) \/ IsNone(target) THEN 0
        ELSE IF Val(skill).subcategory = Val(target).subcategory
             THEN SameSubcategoryScore
        ELSE IF Val(skill).category = Val(target).category
             THEN SameCategoryScore
        ELSE IF Val(target).id \in DOMAIN Val(skill).transferability
             THEN Val(skill).transferability[Val(target).id]
        ELSE IF Val(skill).id \in DOMAIN Val(target).transferability
             THEN Val(target).transferability[Val(skill).id]
        ELSE 0

\* the reverse direction never consulted
GetTransferabilityNoReverse(from_skill, to_skill) ==
    LET skill == FindSkill(from_skill)
        target == FindSkill(to_skill)
    IN  IF IsNone(skill) \/ IsNone(target) THEN 0
        ELSE IF Val(target).id \in DOMAIN Val(skill).transferability
             THEN Val(skill).transferability[Val(target).id]
        ELSE IF Val(skill).subcategory = Val(target).subcategory
             THEN SameSubcategoryScore
        ELSE IF Val(skill).category = Val(target).category
             THEN SameCategoryScore
        ELSE 0

\* the category compared before the subcategory
GetTransferabilityCategoryFirst(from_skill, to_skill) ==
    LET skill == FindSkill(from_skill)
        target == FindSkill(to_skill)
    IN  IF IsNone(skill) \/ IsNone(target) THEN 0
        ELSE IF Val(target).id \in DOMAIN Val(skill).transferability
             THEN Val(skill).transferability[Val(target).id]
        ELSE IF Val(skill).id \in DOMAIN Val(target).transferability
             THEN Val(target).transferability[Val(skill).id]
        ELSE IF Val(skill).category = Val(target).category
             THEN SameCategoryScore
        ELSE IF Val(skill).subcategory = Val(target).subcategory
             THEN SameSubcategoryScore
        ELSE 0

\* the authored scores of the two directions added up
GetTransferabilitySummed(from_skill, to_skill) ==
    LET skill == FindSkill(from_skill)
        target == FindSkill(to_skill)
        direct == IF Val(target).id \in DOMAIN Val(skill).transferability
                  THEN Val(skill).transferability[Val(target).id] ELSE 0
        reverse == IF Val(skill).id \in DOMAIN Val(target).transferability
                   THEN Val(target).transferability[Val(skill).id] ELSE 0
    IN  IF IsNone(skill) \/ IsNone(target) THEN 0
        ELSE IF direct + reverse > 0 THEN direct + reverse
        ELSE IF Val(skill).subcategory = Val(target).subcategory
             THEN SameSubcategoryScore
        ELSE IF Val(skill).category = Val(target).category
             THEN SameCategoryScore
        ELSE 0

GetTransferability(from_skill, to_skill) ==
    LET skill == FindSkill(from_skill)
        target == FindSkill(to_skill)
    IN  IF IsNone(skill) \/ IsNone(target) THEN 0
        ELSE IF Val(target).id \in DOMAIN Val(skill).transferability
             THEN Val(skill).transferability[Val(target).id]
        ELSE IF Val(skill).id \in DOMAIN Val(target).transferability
             THEN Val(target).transferability[Val(skill).id]
        ELSE IF Val(skill).subcategory = Val(target).subcategory
             THEN SameSubcategoryScore
        ELSE IF Val(skill).category = Val(target).category
             THEN SameCategoryScore
        ELSE 0

-----------------------------------------------------------------------------
(* get_roles, get_proficiency_markers, assess_proficiency *)

GetRoles(skill_name) ==
    LET skill == FindSkill(skill_name)
    IN  IF IsNone(skill) THEN <<>> ELSE Val(skill).typical_roles

\* the mapping level -> markers, as the sequence of its items
\* (typical_experience is not modelled)
GetProficiencyMarkers(skill_name) ==
    LET skill == FindSkill(skill_name)
    IN  IF IsNone(skill) THEN <<>> ELSE Val(skill).proficiency_levels

\* w in s, on strings
IsSubstring(w, s) ==
    \E k \in 0..(Len(s) - Len(w)) : \A i \in 1..Len(w) : s[k + i] = w[i]

\* str.split(): the maximal runs of non-blank characters
RECURSIVE SplitFrom(_, _, _)
SplitFrom(s, i, word) ==
    IF i > Len(s) THEN (IF word = <<>> THEN <<>> ELSE <<word>>)
    ELSE IF s[i] = " "
         THEN (IF word = <<>> THEN <<>> ELSE <<word>>) \o SplitFrom(s, i + 1, <<>>)
         ELSE SplitFrom(s, i + 1, Append(word, s[i]))

Split(s) == SplitFrom(s, 1, <<>>)

\* any(word.lower() in context_lower for word in marker.split())
MarkerMatches(marker, context_lower) ==
    \E w \in Range(Split(marker)) : IsSubstring(Lower(w), context_lower)

\* sum(1 for marker in markers if ...)
LevelScore(markers, context_lower) ==
    Cardinality({i \in 1..Len(markers) : MarkerMatches(markers[i], context_lower)})

\* scores: one entry per level, in the order of skill.proficiency_levels
LevelScores(levels, context) ==
    [i \in 1..Len(levels) |->
        [level |-> levels[i].level,
         score |-> LevelScore(levels[i].markers, Lower(context))]]

MaxScore(scores) ==
    CHOOSE m \in {scores[i].score : i \in 1..Len(scores)} :
        \A i \in 1..Len(scores) : scores[i].score <= m

\* max(scores.values()) of an empty dict raises ValueError
AssessProficiencyRaises(skill_name, context) ==
    LET skill == FindSkill(skill_name)
    IN  ~IsNone(skill) /\ Val(skill).proficiency_levels = <<>>

\* max(scores.items(), key=...) keeps the first item that has the maximum
AssessProficiency(skill_name, context) ==
    LET skill == FindSkill(skill_name)
    IN  IF IsNone(skill) THEN None
        ELSE LET scores == LevelScores(Val(skill).proficiency_levels, context)
                 best == MaxScore(scores)
                 first == CHOOSE i \in 1..Len(scores) :
                              /\ scores[i].score = best
                              /\ \A j \in 1..(i - 1) : scores[j].score # best
             IN  IF best > 0 THEN Some(scores[first].level) ELSE None

-----------------------------------------------------------------------------
(* analyze_gaps *)

\* self.normalize(skill) or skill
KeyOf(name) ==
    LET n == Normalize(name)
    IN  IF ~IsNone(n) /\ Truthy(Val(n)) THEN Val(n) ELSE name

\* the keys of {KeyOf(n): n for n in names}, in insertion order
RECURSIVE DictKeys(_, _)
DictKeys(names, keys) ==
    IF names = <<>> THEN keys
    ELSE DictKeys(Tail(names), PutOrder(keys, KeyOf(Head(names))))

\* the orders in which a set of that content may be iterated
Orderings(S) == {o \in [1..Cardinality(S) -> S] : Range(o) = S}

TransferableThreshold == 70
MinorGapThreshold == 50

\* the inner loop keeping the last candidate of the best score (>= for >)
RECURSIVE BestTransferLastWins(_, _, _)
BestTransferLastWins(cand_keys, req_skill, best) ==
    IF cand_keys = <<>> THEN best
    ELSE LET transfer_score == GetTransferability(Head(cand_keys), req_skill)
         IN  BestTransferLastWins(Tail(cand_keys), req_skill,
                 IF transfer_score >= best.transfer /\ transfer_score > 0
                 THEN [transfer |-> transfer_score, match |-> <<Head(cand_keys)>>]
                 ELSE best)

\* the inner loop: the best score over the candidate keys and who attains it
RECURSIVE BestTransfer(_, _, _)
BestTransfer(cand_keys, req_skill, best) ==
    IF cand_keys = <<>> THEN best
    ELSE LET transfer_score == GetTransferability(Head(cand_keys), req_skill)
         IN  BestTransfer(Tail(cand_keys), req_skill,
                 IF transfer_score > best.transfer
                 THEN [transfer |-> transfer_score, match |-> Some(Head(cand_keys))]
                 ELSE best)

NoTransfer == [transfer |-> 0, match |-> None]

\* the loop appending to transferable from the 0.50 of the minor-gap filter on
RECURSIVE ClassifyFromMinorThreshold(_, _, _)
ClassifyFromMinorThreshold(missing, cand_keys, acc) ==
    IF missing = <<>> THEN acc
    ELSE LET req_skill == Head(missing)
             best == BestTransfer(cand_keys, req_skill, NoTransfer)
         IN  ClassifyFromMinorThreshold(Tail(missing), cand_keys,
                 IF best.transfer >= MinorGapThreshold
                 THEN [acc EXCEPT !.transferable =
                          Append(@, [required |-> req_skill,
                                     has |-> best.match,
                                     transferability |-> best.transfer])]
                 ELSE [acc EXCEPT !.critical_gaps = Append(@, req_skill)])

\* the loop over missing, in the order the set is iterated
RECURSIVE Classify(_, _, _)
Classify(missing, cand_keys, acc) ==
    IF missing = <<>> THEN acc
    ELSE LET req_skill == Head(missing)
             best == BestTransfer(cand_keys, req_skill, NoTransfer)
         IN  Classify(Tail(missing), cand_keys,
                 IF best.transfer >= TransferableThreshold
                 THEN [acc EXCEPT !.transferable =
                          Append(@, [required |-> req_skill,
                                     has |-> best.match,
                                     transferability |-> best.transfer])]
                 ELSE [acc EXCEPT !.critical_gaps = Append(@, req_skill)])

IsMinor(t) ==
    MinorGapThreshold <= t.transferability /\ t.transferability < TransferableThreshold

IsTransferable(t) == t.transferability >= TransferableThreshold

RequiredOf(ts) == [i \in 1..Len(ts) |-> ts[i].required]

\* matches_order, missing_order: the iteration orders of the two sets
AnalyzeGaps(required, candidate, matches_order, missing_order) ==
    LET cand_keys == DictKeys(candidate, <<>>)
        found == Classify(missing_order, cand_keys,
                          [transferable |-> <<>>, critical_gaps |-> <<>>])
    IN  [matches       |-> matches_order,
         critical_gaps |-> found.critical_gaps,
         minor_gaps    |-> RequiredOf(SelectSeq(found.transferable, IsMinor)),
         transferable  |-> SelectSeq(found.transferable, IsTransferable)]

MatchesSet(required, candidate) ==
    Range(DictKeys(required, <<>>)) \cap Range(DictKeys(candidate, <<>>))

\* every required key taken as missing (the candidate keys not subtracted)
MissingSetAll(required, candidate) == Range(DictKeys(required, <<>>))

MissingSet(required, candidate) ==
    Range(DictKeys(required, <<>>)) \ Range(DictKeys(candidate, <<>>))

-----------------------------------------------------------------------------
(* generate_learning_path *)

VeryHighDemandWeight == 300
HighDemandWeight == 200
MediumDemandWeight == 100
PrereqsMetBoost == 200
HighPriorityScore == 400
MediumPriorityScore == 200

\* the skills of self.skills.values(), in order, that list the role
RECURSIVE RoleSkills(_, _)
RoleSkills(ids, target_role) ==
    IF ids = <<>> THEN <<>>
    ELSE IF InList(target_role, skills[Head(ids)].typical_roles)
         THEN <<skills[Head(ids)]>> \o RoleSkills(Tail(ids), target_role)
         ELSE RoleSkills(Tail(ids), target_role)

CurrentNormalized(current_skills) == {KeyOf(n) : n \in Range(current_skills)}

\* the check passing over a prerequisite that does not normalize
PrereqsMetSkipUnresolved(skill, current_normalized) ==
    \A i \in 1..Len(skill.prerequisites) :
        LET n == Normalize(skill.prerequisites[i])
        IN  IsNone(n) \/ Val(n) \in current_normalized

\* all(self.normalize(prereq) in current_normalized for prereq in ...)
PrereqsMet(skill, current_normalized) ==
    \A i \in 1..Len(skill.prerequisites) :
        LET n == Normalize(skill.prerequisites[i])
        IN  ~IsNone(n) /\ Val(n) \in current_normalized

DemandWeight(industry_demand) ==
    IF industry_demand = "very_high" THEN VeryHighDemandWeight
    ELSE IF industry_demand = "high" THEN HighDemandWeight
    ELSE IF industry_demand = "medium" THEN MediumDemandWeight
    ELSE 0

\* the loop adding the score of a repeated entry once only
RECURSIVE TransferSumDistinct(_, _)
TransferSumDistinct(current_skills, name) ==
    IF current_skills = <<>> THEN 0
    ELSE (IF InList(Head(current_skills), Tail(current_skills)) THEN 0
          ELSE GetTransferability(Head(current_skills), name))
         + TransferSumDistinct(Tail(current_skills), name)

\* the loop adding get_transferability(current_skill, skill.canonical_name)
RECURSIVE TransferSum(_, _)
TransferSum(current_skills, name) ==
    IF current_skills = <<>> THEN 0
    ELSE GetTransferability(Head(current_skills), name)
         + TransferSum(Tail(current_skills), name)

PriorityScore(skill, current_skills, prereqs_met) ==
    DemandWeight(skill.industry_demand)
    + (IF prereqs_met THEN PrereqsMetBoost ELSE 0)
    + TransferSum(current_skills, skill.canonical_name)

\* the thresholds compared with > for >=
PriorityLabelStrict(priority_score) ==
    IF priority_score > HighPriorityScore THEN "high"
    ELSE IF priority_score > MediumPriorityScore THEN "medium"
    ELSE "low"

PriorityLabel(priority_score) ==
    IF priority_score >= HighPriorityScore THEN "high"
    ELSE IF priority_score >= MediumPriorityScore THEN "medium"
    ELSE "low"

RelatedCurrent(skill, current_skills) ==
    LET Related(current) == AreRelated(current, skill.canonical_name)
    IN  SelectSeq(current_skills, Related)

\* _generate_learning_reason: which sentence, and what it cites
GenerateLearningReason(skill, current_skills) ==
    LET related_current == RelatedCurrent(skill, current_skills)
        blank == [kind |-> "essential", names |-> <<>>, demand |-> "", parent |-> None]
    IN  IF related_current # <<>>
        THEN [blank EXCEPT !.kind = "extends",
                           !.names = SubSeq(related_current, 1,
                                        IF Len(related_current) < 2
                                        THEN Len(related_current) ELSE 2)]
        ELSE IF skill.industry_demand \in {"very_high", "high"}
        THEN [blank EXCEPT !.kind = "demand", !.demand = skill.industry_demand]
        ELSE IF skill.parent_skills # <<>>
        THEN [blank EXCEPT !.kind = "builds_on", !.parent = Some(skill.parent_skills[1])]
        ELSE blank

Recommendation(skill, current_skills) ==
    LET prereqs_met == PrereqsMet(skill, CurrentNormalized(current_skills))
        priority_score == PriorityScore(skill, current_skills, prereqs_met)
    IN  [skill             |-> skill.canonical_name,
         priority          |-> PriorityLabel(priority_score),
         priority_score    |-> priority_score,
         prerequisites_met |-> prereqs_met,
         why               |-> GenerateLearningReason(skill, current_skills)]

\* the loop over role_skills without the skip of the skills already held
RECURSIVE RecommendationsKeepCurrent(_, _)
RecommendationsKeepCurrent(role_skills, current_skills) ==
    IF role_skills = <<>> THEN <<>>
    ELSE <<Recommendation(Head(role_skills), current_skills)>>
         \o RecommendationsKeepCurrent(Tail(role_skills), current_skills)

\* the loop over role_skills
RECURSIVE Recommendations(_, _)
Recommendations(role_skills, current_skills) ==
    IF role_skills = <<>> THEN <<>>
    ELSE IF Head(role_skills).canonical_name \in CurrentNormalized(current_skills)
         THEN Recommendations(Tail(role_skills), current_skills)
         ELSE <<Recommendation(Head(role_skills), current_skills)>>
              \o Recommendations(Tail(role_skills), current_skills)

\* a sort placing a recommendation before those of equal score
RECURSIVE InsertBeforeEqual(_, _)
InsertBeforeEqual(sorted, rec) ==
    IF sorted = <<>> THEN <<rec>>
    ELSE IF Head(sorted).priority_score > rec.priority_score
         THEN <<Head(sorted)>> \o InsertBeforeEqual(Tail(sorted), rec)
         ELSE <<rec>> \o sorted

\* list.sort(key=priority_score, reverse=True): stable, equal scores keep their order
RECURSIVE InsertByScore(_, _)
InsertByScore(sorted, rec) ==
    IF sorted = <<>> THEN <<rec>>
    ELSE IF Head(sorted).priority_score >= rec.priority_score
         THEN <<Head(sorted)>> \o InsertByScore(Tail(sorted), rec)
         ELSE <<rec>> \o sorted

RECURSIVE SortByScore(_, _)
SortByScore(recs, sorted) ==
    IF recs = <<>> THEN sorted
    ELSE SortByScore(Tail(recs), InsertByScore(sorted, Head(recs)))

GenerateLearningPath(current_skills, target_role) ==
    SortByScore(Recommendations(RoleSkills(order, target_role), current_skills), <<>>)

-----------------------------------------------------------------------------
(* search_skills, get_statistics *)

DefaultLimit == 10

\* the three tests of the loop body, each ending the iteration with an append
SkillMatches(skill, query_lower) ==
    \/ IsSubstring(query_lower, Lower(skill.canonical_name))
    \/ \E i \in 1..Len(skill.aliases) : IsSubstring(query_lower, Lower(skill.aliases[i]))
    \/ \E i \in 1..Len(skill.tags) : IsSubstring(query_lower, Lower(skill.tags[i]))

\* the loop over self.skills.values()
RECURSIVE SearchResults(_, _)
SearchResults(ids, query_lower) ==
    IF ids = <<>> THEN <<>>
    ELSE IF SkillMatches(skills[Head(ids)], query_lower)
         THEN <<skills[Head(ids)]>> \o SearchResults(Tail(ids), query_lower)
         ELSE SearchResults(Tail(ids), query_lower)

\* l[:limit]: the first limit elements, or all but the last -limit ones when
\* limit is negative
SliceTo(l, limit) ==
    LET stop == IF limit >= 0
                THEN (IF limit < Len(l) THEN limit ELSE Len(l))
                ELSE (IF Len(l) + limit > 0 THEN Len(l) + limit ELSE 0)
    IN  SubSeq(l, 1, stop)

SearchSkills(query, limit) == SliceTo(SearchResults(order, Lower(query)), limit)

\* sum(len(skill.aliases) for skill in self.skills.values())
RECURSIVE TotalAliases(_)
TotalAliases(ids) ==
    IF ids = <<>> THEN 0
    ELSE Len(skills[Head(ids)].aliases) + TotalAliases(Tail(ids))

\* sum(len(skill.transferability) for skill in self.skills.values())
RECURSIVE TotalLinks(_)
TotalLinks(ids) ==
    IF ids = <<>> THEN 0
    ELSE Cardinality(DOMAIN skills[Head(ids)].transferability) + TotalLinks(Tail(ids))

\* a / b of two ints, kept as the exact fraction
Ratio(a, b) == [num |-> a, den |-> b]

\* the int 0 of the else branch
Zero == Ratio(0, 1)

GetStatistics ==
    LET stored == {skills[id] : id \in DOMAIN skills}
        demands == {S.industry_demand : S \in stored}
    IN  [total_skills    |-> Cardinality(DOMAIN skills),
         categories      |-> Cardinality({S.category : S \in stored}),
         subcategories   |-> Cardinality({S.subcategory : S \in stored}),
         total_aliases   |-> TotalAliases(order),
         demand_distribution |->
             [d \in demands |-> Cardinality({S \in stored : S.industry_demand = d})],
         average_transferability_links |->
             IF DOMAIN skills # {}
             THEN Ratio(TotalLinks(order), Cardinality(DOMAIN skills))
             ELSE Zero]

-----------------------------------------------------------------------------
(* The calls of the public methods *)

NormalizeCall(names) ==
    /\ Idle
    /\ \E n \in names : Returns("normalize", <<n>>, Normalize(n))

FindSkillCall(names) ==
    /\ Idle
    /\ \E n \in names : Returns("find_skill", <<n>>, FindSkill(n))

GetParentsCall(names) ==
    /\ Idle
    /\ \E n \in names : Returns("get_parents", <<n>>, GetParents(n))

GetChildrenCall(names) ==
    /\ Idle
    /\ \E n \in names : Returns("get_children", <<n>>, GetChildren(n))

GetRelatedCall(names) ==
    /\ Idle
    /\ \E n \in names : Returns("get_related", <<n>>, GetRelated(n))

AreRelatedCall(names) ==
    /\ Idle
    /\ \E a \in names, b \in names : Returns("are_related", <<a, b>>, AreRelated(a, b))

GetTransferabilityCall(names) ==
    /\ Idle
    /\ \E a \in names, b \in names :
           Returns("get_transferability", <<a, b>>, GetTransferability(a, b))

GetRolesCall(names) ==
    /\ Idle
    /\ \E n \in names : Returns("get_roles", <<n>>, GetRoles(n))

GetProficiencyMarkersCall(names) ==
    /\ Idle
    /\ \E n \in names :
           Returns("get_proficiency_markers", <<n>>, GetProficiencyMarkers(n))

AssessProficiencyCall(names, contexts) ==
    /\ Idle
    /\ \E n \in names, c \in contexts :
           IF AssessProficiencyRaises(n, c)
           THEN Raises("assess_proficiency", <<n, c>>)
           ELSE Returns("assess_proficiency", <<n, c>>, AssessProficiency(n, c))

AnalyzeGapsCall(required_names, candidate_names) ==
    /\ Idle
    /\ \E required \in SeqsUpTo(required_names, MaxList),
          candidate \in SeqsUpTo(candidate_names, MaxList) :
           \E mo \in Orderings(MatchesSet(required, candidate)),
              go \in Orderings(MissingSet(required, candidate)) :
               Returns("analyze_gaps", <<required, candidate>>,
                       AnalyzeGaps(required, candidate, mo, go))

GenerateLearningPathCall(names, roles) ==
    /\ Idle
    /\ \E current_skills \in SeqsUpTo(names, MaxList), target_role \in roles :
           Returns("generate_learning_path", <<current_skills, target_role>>,
                   GenerateLearningPath(current_skills, target_role))

SearchSkillsCall(queries, limits) ==
    /\ Idle
    /\ \E query \in queries, limit \in limits :
           Returns("search_skills", <<query, limit>>, SearchSkills(query, limit))

GetStatisticsCall ==
    /\ Idle
    /\ Returns("get_statistics", <<>>, GetStatistics)

\* the caller has taken the result (or caught the exception) and goes on
Resume ==
    /\ status = "ready"
    /\ call.op # "none"
    /\ call' = NoCall
    /\ UNCHANGED <<taxonomy_file, document, loaded, status, skills, order, alias_map>>

-----------------------------------------------------------------------------
(* Input documents *)

Js == <<"J", "s">>
Ts == <<"T", "s">>
Es == <<"E", "s">>
Vue == <<"V", "u", "e">>
Unknown == <<"Q">>

id_js == <<"j", "s">>
id_ts == <<"t", "s">>
id_vu == <<"v", "u">>
\* an id no skill object carries
id_x == <<"x">>

\* a skill object holding the required keys only
Bare(id, name, category, subcategory) ==
    [id |-> id, canonical_name |-> name, category |-> category,
     subcategory |-> subcategory, description |-> "text"]

\* r with key k set to v
With(r, k, v) == [x \in DOMAIN r \cup {k} |-> IF x = k THEN v ELSE r[x]]

Entry(id, score) == [x \in {id} |-> score]

\* lookup: two ids, two names, three alias lists, in every combination and order
LookupPool ==
    {With(Bare(id, name, "tech", "frontend"), "aliases", aliases) :
        id \in {id_js, id_ts},
        name \in {Js, Ts},
        aliases \in {<<>>, <<<<"j", "S">>>>, <<Es, <<"t", "s">>>>}}

LookupDocs == SeqsUpTo(LookupPool, MaxSkills)

LookupNames == UNION {CaseVariants(n) : n \in {Js, Ts, Es, Unknown}}

\* transferability: 'Js' and 'Ts' with every subcategory/category relation and
\* every authored link between them, in or out of [0, 1]
Scores == {-10, 0, 70, 100, 120}

TransferMaps(self, other) ==
    {EmptyDict, Entry(self, 90)} \cup {Entry(other, v) : v \in Scores}

Placements ==
    {<<"tech", "frontend">>, <<"tech", "backend">>,
     <<"business", "frontend">>, <<"business", "sales">>}

TransferJs ==
    {With(Bare(id_js, Js, "tech", "frontend"), "transferability", t) :
        t \in TransferMaps(id_js, id_ts)}

TransferTs ==
    {With(Bare(id_ts, Ts, p[1], p[2]), "transferability", t) :
        p \in Placements, t \in TransferMaps(id_ts, id_js)}

TransferDocs ==
    {<<a>> : a \in TransferJs} \cup {<<a, b>> : a \in TransferJs, b \in TransferTs}

TransferNames == {Js, <<"j", "S">>, Ts, Unknown}

\* gap analysis: three skills; 'Js' and 'Vue' share a subcategory, 'Ts' is placed
\* in it, beside it or in another category; authored links towards 'Ts' on either
\* side of the 0.50 and 0.70 thresholds, and one link authored in reverse
GapsJs ==
    {With(Bare(id_js, Js, "tech", "frontend"), "transferability", t) :
        t \in {EmptyDict, Entry(id_ts, 60), Entry(id_ts, 70), Entry(id_ts, 85)}}

GapsTs ==
    {With(Bare(id_ts, Ts, p[1], p[2]), "transferability", t) :
        p \in {<<"tech", "frontend">>, <<"tech", "backend">>, <<"business", "sales">>},
        t \in {EmptyDict, Entry(id_js, 70)}}

GapsVue ==
    {With(Bare(id_vu, Vue, "tech", "frontend"), "transferability", t) :
        t \in {EmptyDict, Entry(id_ts, 70), Entry(id_ts, 85)}}

GapsDocs == {<<a, b, c>> : a \in GapsJs, b \in GapsTs, c \in GapsVue}

\* required: the target of the links, a skill held under another spelling and an
\* unknown name; candidates: the two sources of the links and the unknown name
GapsRequired == {<<"j", "S">>, Ts, Unknown}

GapsCandidates == {<<"j", "S">>, Vue, Unknown}

\* learning paths: roles that name the target role, name it in another letter
\* case or not at all; every demand weight; prerequisites that resolve, that do
\* not ('vu' is no name of 'Vue') and that dangle; one authored link
PathJs ==
    {With(With(Bare(id_js, Js, "tech", "frontend"), "typical_roles", r),
          "industry_demand", d) :
        r \in {<<"Frontend">>, <<>>}, d \in {"very_high", "low"}}

PathTs ==
    {With(With(With(With(Bare(id_ts, Ts, "tech", "backend"), "typical_roles", r),
                    "industry_demand", d), "prerequisites", q), "transferability", t) :
        r \in {<<"Frontend">>, <<"frontend">>, <<"Backend", "Frontend">>},
        d \in {"high", "declining"},
        q \in {<<>>, <<id_js>>, <<id_js, id_vu>>},
        t \in {EmptyDict, Entry(id_js, 85)}}

PathVue ==
    {With(With(Bare(id_vu, Vue, "tech", "frontend"), "typical_roles", <<"Frontend">>),
          "prerequisites", q) :
        q \in {<<>>, <<id_ts>>}}
    \cup {With(With(Bare(id_vu, Vue, "tech", "frontend"), "typical_roles", <<"Frontend">>),
               "parent_skills", <<id_js>>)}

PathDocs == {<<a, b, c>> : a \in PathJs, b \in PathTs, c \in PathVue}

PathNames == {<<"j", "S">>, Ts, Vue, Unknown}

PathRoles == {"Frontend", "Backend", "Designer"}

\* edges: 'Js' with every parent list over two stored ids and a dangling one,
\* child and related lists mixing them; 'Ts' in or out of the subcategory of
\* 'Js', naming it as related or not, or missing from the document
EdgeLists == SeqsUpTo({id_ts, id_vu, id_x}, MaxList)

EdgesJs ==
    {With(With(With(Bare(id_js, Js, "tech", "frontend"),
                    "parent_skills", p), "child_skills", c), "related_skills", r) :
        p \in EdgeLists,
        c \in {<<>>, <<id_x, id_vu>>, <<id_vu, id_ts>>},
        r \in {<<>>, <<id_ts>>, <<id_x, id_ts>>}}

EdgesTs ==
    {With(Bare(id_ts, Ts, "tech", sub), "related_skills", r) :
        sub \in {"frontend", "backend"}, r \in {<<>>, <<id_js>>}}

EdgesVue == Bare(id_vu, Vue, "tech", "backend")

EdgesDocs ==
    {<<a, b, EdgesVue>> : a \in EdgesJs, b \in EdgesTs}
    \cup {<<a, EdgesVue>> : a \in EdgesJs}

EdgesNames == {<<"j", "S">>, Ts, Vue, Unknown}

\* a sample taxonomy with every field in use: aliases, edges to stored and to
\* missing ids, authored links, proficiency markers, roles and prerequisites;
\* 'Vue' gives the required keys only
Levels ==
    <<[level |-> "beginner", markers |-> <<<<"t", "e", "s", "t", " ", "j", "s">>, <<"a", "b">>>>],
      [level |-> "expert", markers |-> <<<<"c", "s", "s">>, <<"A", "b", " ", "x">>>>]>>

SampleJs ==
    [id |-> id_js, canonical_name |-> Js, aliases |-> <<Es>>,
     category |-> "tech", subcategory |-> "frontend", description |-> "text",
     tags |-> <<<<"c", "s", "s">>>>,
     parent_skills |-> <<>>, child_skills |-> <<id_ts, <<"x">>>>,
     related_skills |-> <<id_vu>>,
     transferability |-> Entry(id_ts, 85),
     proficiency_levels |-> Levels,
     typical_roles |-> <<"Frontend">>, industry_demand |-> "very_high",
     prerequisites |-> <<>>]

SampleTs ==
    [id |-> id_ts, canonical_name |-> Ts, aliases |-> <<>>,
     category |-> "tech", subcategory |-> "backend", description |-> "text",
     tags |-> <<>>,
     parent_skills |-> <<id_js>>, child_skills |-> <<>>,
     related_skills |-> <<id_js, <<"x">>>>,
     transferability |-> Entry(<<"x">>, 40),
     proficiency_levels |-> Levels,
     typical_roles |-> <<"Frontend", "Backend">>, industry_demand |-> "high",
     prerequisites |-> <<id_js, <<"x">>>>]

SampleVue == Bare(id_vu, Vue, "tech", "frontend")

\* a skill object without 'description'
SampleBroken == [id |-> <<"x">>, canonical_name |-> <<"X">>,
                 category |-> "tech", subcategory |-> "frontend"]

SampleDocs ==
    {<<>>, <<SampleJs>>, <<SampleJs, SampleTs>>, <<SampleJs, SampleTs, SampleVue>>,
     <<SampleJs, SampleBroken, SampleTs>>}

SampleNames == {Js, <<"e", "S">>, Ts, Vue, Unknown}

SampleRoles == {"Frontend", "Designer"}

\* contexts matching most markers of one level, one marker of each level, none
SampleContexts ==
    {<<"T", "e", "s", "t", " ", "a", "b">>, <<"x", " ", "A", "B">>, <<"q">>}

\* a file holding the skill objects of doc in one subcategory of one category
FileOf(doc) ==
    File([version |-> "1",
          categories |-> <<[name |-> "c",
                            subcategories |-> <<[name |-> "s", skills |-> doc]>>]>>])

\* loading: the file missing, and files with or without 'categories', whose
\* categories come with or without 'subcategories', whose subcategories come
\* with or without 'skills', whose skill objects are complete or lack a field
SubPool ==
    {[name |-> "s"]}
    \cup {[name |-> "s", skills |-> l] :
            l \in {<<>>, <<SampleJs>>, <<SampleTs, SampleBroken>>, <<SampleVue>>}}

SubLists == {<<>>} \cup {<<a>> : a \in SubPool} \cup {<<a, b>> : a \in SubPool, b \in SubPool}

CatPool == {[name |-> "c"]} \cup {[name |-> "c", subcategories |-> l] : l \in SubLists}

CatLists == {<<>>} \cup {<<a>> : a \in CatPool} \cup {<<a, b>> : a \in CatPool, b \in CatPool}

LoadFiles ==
    {Absent, File([version |-> "1"])}
    \cup {File([version |-> "1", categories |-> l]) : l \in CatLists}

LoadNames == {Js, <<"e", "S">>, Ts, Unknown}

\* queries found in a name, in an alias in another letter case, in a tag, in
\* every string (the empty query) and nowhere; limits around the result sizes
SampleQueries == {<<"S">>, <<"e", "S">>, <<"c", "s">>, <<>>, Unknown}

SampleLimits == {-1, 0, 1, 2, DefaultLimit}

-----------------------------------------------------------------------------
(* Specifications *)

\* the state in which __init__ enters _load_taxonomy on a given document
InitFiles(files) ==
    /\ taxonomy_file \in files
    /\ document = IF taxonomy_file.exists THEN SkillObjects(taxonomy_file.data) ELSE <<>>
    /\ loaded = 0
    /\ status = "loading"
    /\ skills = EmptyDict
    /\ order = <<>>
    /\ alias_map = EmptyDict
    /\ call = NoCall

\* the same, on a file holding the given skill objects in one subcategory
InitWith(docs) == InitFiles({FileOf(d) : d \in docs})

InitLookup == InitWith(LookupDocs)

NextLookup ==
    \/ LoadSkill
    \/ FinishLoad
    \/ NormalizeCall(LookupNames)
    \/ Resume

SpecLookup == InitLookup /\ [][NextLookup]_vars

InitTransfer == InitWith(TransferDocs)

NextTransfer ==
    \/ LoadSkill
    \/ FinishLoad
    \/ GetTransferabilityCall(TransferNames)
    \/ Resume

SpecTransfer == InitTransfer /\ [][NextTransfer]_vars

InitGaps == InitWith(GapsDocs)

NextGaps ==
    \/ LoadSkill
    \/ FinishLoad
    \/ AnalyzeGapsCall(GapsRequired, GapsCandidates)
    \/ Resume

SpecGaps == InitGaps /\ [][NextGaps]_vars

InitPath == InitWith(PathDocs)

NextPath ==
    \/ LoadSkill
    \/ FinishLoad
    \/ GenerateLearningPathCall(PathNames, PathRoles)
    \/ Resume

SpecPath == InitPath /\ [][NextPath]_vars

InitEdges == InitWith(EdgesDocs)

NextEdges ==
    \/ LoadSkill
    \/ FinishLoad
    \/ GetParentsCall(EdgesNames)
    \/ GetChildrenCall(EdgesNames)
    \/ GetRelatedCall(EdgesNames)
    \/ AreRelatedCall(EdgesNames)
    \/ Resume

SpecEdges == InitEdges /\ [][NextEdges]_vars

InitLoad == InitFiles(LoadFiles)

NextLoad ==
    \/ FileNotFound
    \/ LoadSkill
    \/ FinishLoad
    \/ NormalizeCall(LoadNames)
    \/ GetStatisticsCall
    \/ Resume

SpecLoad == InitLoad /\ [][NextLoad]_vars

\* every public method on the sample taxonomy
Init == InitWith(SampleDocs)

Next ==
    \/ LoadSkill
    \/ FinishLoad
    \/ NormalizeCall(SampleNames)
    \/ FindSkillCall(SampleNames)
    \/ GetParentsCall(SampleNames)
    \/ GetChildrenCall(SampleNames)
    \/ GetRelatedCall(SampleNames)
    \/ AreRelatedCall(SampleNames)
    \/ GetTransferabilityCall(SampleNames)
    \/ GetRolesCall(SampleNames)
    \/ GetProficiencyMarkersCall(SampleNames)
    \/ AssessProficiencyCall(SampleNames, SampleContexts)
    \/ AnalyzeGapsCall(SampleNames, SampleNames)
    \/ GenerateLearningPathCall(SampleNames, SampleRoles)
    \/ SearchSkillsCall(SampleQueries, SampleLimits)
    \/ GetStatisticsCall
    \/ Resume

Spec == Init /\ [][Next]_vars

-----------------------------------------------------------------------------
(* Properties *)

\* the names a skill answers to
NamesOf(skill) == {skill.canonical_name} \cup Range(skill.aliases)

StoredSkillSet == {skills[id] : id \in DOMAIN skills}

\* the uniqueness invariant on the loaded skill objects: no two of them share
\* a canonical name or an alias, letter case ignored
LoadedNames(i) ==
    {Lower(n) : n \in NamesOf(ParseSkill(document[i]))}

UniqueNames ==
    \A i \in 1..loaded, j \in 1..loaded :
        i # j => LoadedNames(i) \cap LoadedNames(j) = {}

\* C1: in a store whose skill objects satisfy the uniqueness invariant, normalize
\* maps every spelling, in any letter case, of the canonical name or of an alias
\* of a stored skill S to exactly S.canonical_name.
C1_NormalizeRoundTrip ==
    (call.op = "normalize" /\ UniqueNames) =>
        \A S \in StoredSkillSet :
            \A n \in NamesOf(S) :
                call.args[1] \in CaseVariants(n) => call.ret = Some(S.canonical_name)

\* C1 witness: normalize was called with an alias of the second of two stored
\* skills, spelled in another letter case, and returned its canonical name.
C1_Witness ==
    /\ call.op = "normalize"
    /\ UniqueNames
    /\ Cardinality(DOMAIN skills) = 2
    /\ \E S \in StoredSkillSet :
        \E n \in Range(S.aliases) :
            /\ call.args[1] \in CaseVariants(n) \ {n}
            /\ Lower(n) # Lower(S.canonical_name)
            /\ S.canonical_name # call.args[1]
            /\ call.ret = Some(S.canonical_name)

\* the two skills a get_transferability call resolved
FromSkill == FindSkill(call.args[1])
ToSkill == FindSkill(call.args[2])

BothResolve == ~IsNone(FromSkill) /\ ~IsNone(ToSkill)

Authored(A, B) == B.id \in DOMAIN A.transferability

\* C2: when A.transferability holds B.id with value x, get_transferability(A, B)
\* returns x, whatever the subcategory/category relation of the two and whatever
\* B.transferability holds for A.id.
C2_AuthoredWins ==
    (call.op = "get_transferability" /\ BothResolve) =>
        LET A == Val(FromSkill)
            B == Val(ToSkill)
        IN  Authored(A, B) => call.ret = A.transferability[B.id]

\* C2 witness: an authored value other than 0.50 returned for two skills of one
\* subcategory, the reverse direction being authored with another value.
C2_Witness ==
    /\ call.op = "get_transferability"
    /\ BothResolve
    /\ LET A == Val(FromSkill)
           B == Val(ToSkill)
       IN  /\ A.id # B.id
           /\ Authored(A, B) /\ Authored(B, A)
           /\ A.transferability[B.id] # B.transferability[A.id]
           /\ A.subcategory = B.subcategory
           /\ A.transferability[B.id] # SameSubcategoryScore
           /\ call.ret = A.transferability[B.id]

\* C3: when both names resolve, A.transferability lacks B.id and B.transferability
\* holds A.id with value y, get_transferability(A, B) returns y, before the
\* same-subcategory and same-category scores.
C3_ReverseAuthored ==
    (call.op = "get_transferability" /\ BothResolve) =>
        LET A == Val(FromSkill)
            B == Val(ToSkill)
        IN  (~Authored(A, B) /\ Authored(B, A)) => call.ret = B.transferability[A.id]

\* C3 witness: the reverse-authored value returned for two skills of one subcategory.
C3_Witness ==
    /\ call.op = "get_transferability"
    /\ BothResolve
    /\ LET A == Val(FromSkill)
           B == Val(ToSkill)
       IN  /\ ~Authored(A, B) /\ Authored(B, A)
           /\ A.subcategory = B.subcategory
           /\ B.transferability[A.id] = 70
           /\ call.ret = 70

\* C4: when both names resolve and neither map holds the other's id, the score is
\* 0.50 for one subcategory, otherwise 0.30 for one category, otherwise 0.0; a
\* skill against itself scores 0.50.
C4_Heuristics ==
    (call.op = "get_transferability" /\ BothResolve) =>
        LET A == Val(FromSkill)
            B == Val(ToSkill)
        IN  (~Authored(A, B) /\ ~Authored(B, A)) =>
                call.ret = IF A.subcategory = B.subcategory THEN 50
                           ELSE IF A.category = B.category THEN 30
                           ELSE 0

\* C4 witnesses: each of the three outcomes, and a skill against itself.
C4_Witness ==
    /\ call.op = "get_transferability"
    /\ BothResolve
    /\ LET A == Val(FromSkill)
           B == Val(ToSkill)
       IN  /\ ~Authored(A, B) /\ ~Authored(B, A)
           /\ A.id # B.id
           /\ A.subcategory # B.subcategory
           /\ A.category = B.category
           /\ call.ret = 30

\* every authored score of the store lies in [0, 1]
AuthoredInRange ==
    \A S \in StoredSkillSet :
        \A id \in DOMAIN S.transferability :
            0 <= S.transferability[id] /\ S.transferability[id] <= 100

\* C5: when every authored score of the store lies in [0, 1], so does
\* get_transferability(a, b), for every two strings a and b.
C5_ScoreInRange ==
    (call.op = "get_transferability" /\ AuthoredInRange) =>
        (0 <= call.ret /\ call.ret <= 100)

\* C5 witness: an authored 1.0 returned for a resolved pair in an in-range store.
C5_Witness ==
    /\ call.op = "get_transferability"
    /\ AuthoredInRange
    /\ BothResolve
    /\ Authored(Val(FromSkill), Val(ToSkill))
    /\ call.ret = 100

\* key(n): normalize(n) if it resolves, n itself otherwise
ClaimKey(n) == IF IsNone(Normalize(n)) THEN n ELSE Val(Normalize(n))

ClaimKeys(names) == {ClaimKey(names[i]) : i \in 1..Len(names)}

NoDuplicates(l) == \A i \in 1..Len(l), j \in 1..Len(l) : l[i] = l[j] => i = j

\* C7: matches is the set of required keys that are candidate keys; none of them
\* is in critical_gaps, minor_gaps or transferable; matches, critical_gaps and the
\* 'required' fields of transferable are duplicate-free, pairwise disjoint and
\* together the set of required keys.
C7_GapPartition ==
    call.op = "analyze_gaps" =>
        LET req == ClaimKeys(call.args[1])
            cand == ClaimKeys(call.args[2])
            matches == call.ret.matches
            critical == call.ret.critical_gaps
            minor == call.ret.minor_gaps
            transf == RequiredOf(call.ret.transferable)
        IN  /\ Range(matches) = req \cap cand
            /\ Range(matches) \cap (Range(critical) \cup Range(minor) \cup Range(transf)) = {}
            /\ NoDuplicates(matches) /\ NoDuplicates(critical) /\ NoDuplicates(transf)
            /\ Range(critical) \cap Range(transf) = {}
            /\ Range(matches) \cup Range(critical) \cup Range(transf) = req

\* C7 witness: one call, with two candidates, that reports a match (through
\* another spelling of the name) and a transferable skill.
C7_Witness ==
    /\ call.op = "analyze_gaps"
    /\ Len(call.ret.matches) = 1
    /\ ~InList(call.ret.matches[1], call.args[1])
    /\ Len(call.ret.transferable) = 1
    /\ Len(call.args[2]) = 2

\* the required keys that are no candidate key, and the scores of the candidates
MissingKeys == ClaimKeys(call.args[1]) \ ClaimKeys(call.args[2])

CandidateScore(i, r) == GetTransferability(ClaimKey(call.args[2][i]), r)

\* the best score s for r over the candidate keys (0.0 without candidates)
BestScore(r) ==
    LET scores == {CandidateScore(i, r) : i \in 1..Len(call.args[2])} \cup {0}
    IN  CHOOSE s \in scores : \A t \in scores : t <= s

\* the first position of the candidate input whose key attains the best score
FirstAttaining(r) ==
    CHOOSE i \in 1..Len(call.args[2]) :
        /\ CandidateScore(i, r) = BestScore(r)
        /\ \A j \in 1..(i - 1) : CandidateScore(j, r) # BestScore(r)

\* C8: a missing required key r whose best score s is at least 0.70 is reported
\* in transferable and not in critical_gaps, with 'transferability' = s and
\* 'has' = the first candidate key, in input order, that attains s.
C8_TransferableBest ==
    call.op = "analyze_gaps" =>
        \A r \in MissingKeys :
            BestScore(r) >= 70 =>
                /\ ~InList(r, call.ret.critical_gaps)
                /\ \E i \in 1..Len(call.ret.transferable) :
                    LET t == call.ret.transferable[i]
                    IN  /\ t.required = r
                        /\ t.transferability = BestScore(r)
                        /\ t.has = Some(ClaimKey(call.args[2][FirstAttaining(r)]))

\* C8 witness: two different candidate keys both score exactly 0.70 for the
\* missing key, and the first of them is reported.
C8_Witness ==
    /\ call.op = "analyze_gaps"
    /\ Len(call.args[2]) = 2
    /\ Len(call.ret.transferable) = 1
    /\ LET t == call.ret.transferable[1]
       IN  /\ t.transferability = 70
           /\ CandidateScore(1, t.required) = 70
           /\ CandidateScore(2, t.required) = 70
           /\ ClaimKey(call.args[2][1]) # ClaimKey(call.args[2][2])
           /\ t.has = Some(ClaimKey(call.args[2][1]))

\* C9: a missing required key whose best score s satisfies 0.50 <= s < 0.70 is
\* in minor_gaps, and a missing required key is in critical_gaps only when
\* s < 0.50.
C9_MinorGapReported ==
    call.op = "analyze_gaps" =>
        \A r \in MissingKeys :
            /\ (50 <= BestScore(r) /\ BestScore(r) < 70) => InList(r, call.ret.minor_gaps)
            /\ InList(r, call.ret.critical_gaps) => BestScore(r) < 50

\* the name is no key of the alias index
Unresolved(n) == Lower(n) \notin DOMAIN alias_map

AnyUnresolved(names) == \E i \in 1..Len(names) : Unresolved(names[i])

\* C6: no operation raises on a name that is not in the alias index: normalize,
\* find_skill and assess_proficiency return None; get_parents, get_children,
\* get_related and get_roles an empty list; get_proficiency_markers an empty
\* mapping; are_related False and get_transferability 0.0 when either argument
\* is unresolved; analyze_gaps and generate_learning_path complete normally.
C6_UnresolvedNeverRaises ==
    /\ (call.op \in {"normalize", "find_skill", "assess_proficiency"}
            /\ Unresolved(call.args[1]))
        => (~call.raised /\ call.ret = None)
    /\ (call.op \in {"get_parents", "get_children", "get_related", "get_roles",
                     "get_proficiency_markers"}
            /\ Unresolved(call.args[1]))
        => (~call.raised /\ call.ret = <<>>)
    /\ (call.op = "are_related"
            /\ (Unresolved(call.args[1]) \/ Unresolved(call.args[2])))
        => (~call.raised /\ call.ret = FALSE)
    /\ (call.op = "get_transferability"
            /\ (Unresolved(call.args[1]) \/ Unresolved(call.args[2])))
        => (~call.raised /\ call.ret = 0)
    /\ (call.op = "analyze_gaps"
            /\ (AnyUnresolved(call.args[1]) \/ AnyUnresolved(call.args[2])))
        => ~call.raised
    /\ (call.op = "generate_learning_path" /\ AnyUnresolved(call.args[1]))
        => ~call.raised

\* C6 witness: analyze_gaps completed with an unresolved required name next to
\* a resolved one, and reports the unresolved name, as given, as a critical gap.
C6_Witness ==
    /\ call.op = "analyze_gaps"
    /\ ~call.raised
    /\ Len(call.args[1]) = 2
    /\ Unresolved(call.args[1][1])
    /\ ~Unresolved(call.args[1][2])
    /\ ~AnyUnresolved(call.args[2]) /\ call.args[2] # <<>>
    /\ InList(call.args[1][1], call.ret.critical_gaps)

\* the stored skills that list the role and are not held already
ToLearn(current_skills, target_role) ==
    {id \in DOMAIN skills :
        /\ InList(target_role, skills[id].typical_roles)
        /\ skills[id].canonical_name \notin ClaimKeys(current_skills)}

\* C10: generate_learning_path returns exactly one recommendation for each
\* stored skill whose typical_roles holds target_role as an exact member and
\* whose canonical name is not in {normalize(n) or n}, and none for another.
C10_RecommendedSkills ==
    call.op = "generate_learning_path" =>
        LET learn == ToLearn(call.args[1], call.args[2])
            recs == call.ret
        IN  /\ Len(recs) = Cardinality(learn)
            /\ \A id \in learn :
                Cardinality({i \in 1..Len(recs) : recs[i].skill = skills[id].canonical_name})
                  = Cardinality({j \in learn :
                        skills[j].canonical_name = skills[id].canonical_name})

\* C10 witness: a call that leaves out one role skill held under another
\* spelling and one skill whose role differs in letter case only, and
\* recommends the remaining one.
C10_Witness ==
    /\ call.op = "generate_learning_path"
    /\ call.args[2] = "Frontend"
    /\ Len(call.ret) = 1
    /\ \E i \in 1..Len(call.args[1]) :
        /\ ~InList(call.args[1][i], <<Js, Ts, Vue>>)
        /\ ClaimKey(call.args[1][i]) = Js
        /\ InList("Frontend", skills[id_js].typical_roles)
    /\ skills[id_ts].typical_roles = <<"frontend">>
    /\ call.ret[1].skill = Vue

\* the stored skill a recommendation names
SkillNamed(name) == CHOOSE S \in StoredSkillSet : S.canonical_name = name

\* the prerequisite id normalizes to a canonical name of the current set
PrerequisiteHeld(p, current_skills) ==
    /\ ~IsNone(Normalize(p))
    /\ Val(Normalize(p)) \in ClaimKeys(current_skills)

\* C11: prerequisites_met of a recommended skill is true if and only if every
\* id p of its prerequisites normalizes to a canonical name that is in the
\* normalized current set: true without prerequisites, false as soon as one
\* prerequisite does not normalize.
C11_PrerequisitesMet ==
    call.op = "generate_learning_path" =>
        \A i \in 1..Len(call.ret) :
            LET K == SkillNamed(call.ret[i].skill)
            IN  call.ret[i].prerequisites_met =
                    (\A p \in Range(K.prerequisites) : PrerequisiteHeld(p, call.args[1]))

\* C11 witness: a recommended skill with two prerequisites, the first held by
\* the user and the second one not normalizing, reported as not met.
C11_Witness ==
    /\ call.op = "generate_learning_path"
    /\ \E i \in 1..Len(call.ret) :
        LET K == SkillNamed(call.ret[i].skill)
        IN  /\ Len(K.prerequisites) = 2
            /\ PrerequisiteHeld(K.prerequisites[1], call.args[1])
            /\ IsNone(Normalize(K.prerequisites[2]))
            /\ call.ret[i].prerequisites_met = FALSE

\* the sum of get_transferability(e, name) over the first n entries e of the
\* current_skills argument, one term per position
RECURSIVE TransferOverEntries(_, _)
TransferOverEntries(n, name) ==
    IF n = 0 THEN 0
    ELSE TransferOverEntries(n - 1, name) + GetTransferability(call.args[1][n], name)

WeightOfDemand(demand) ==
    CASE demand = "very_high" -> 300
      [] demand = "high" -> 200
      [] demand = "medium" -> 100
      [] demand \in {"low", "declining"} -> 0

\* C12: the priority_score of a recommended skill K is its demand weight, plus
\* 2.0 when prerequisites_met, plus the sum of get_transferability(e,
\* K.canonical_name) over the entries e of current_skills as given, a repeated
\* entry counted once per occurrence and an unresolved one as 0.
C12_PriorityScore ==
    call.op = "generate_learning_path" =>
        \A i \in 1..Len(call.ret) :
            LET K == SkillNamed(call.ret[i].skill)
            IN  call.ret[i].priority_score =
                    WeightOfDemand(K.industry_demand)
                    + (IF call.ret[i].prerequisites_met THEN 200 ELSE 0)
                    + TransferOverEntries(Len(call.args[1]), K.canonical_name)

\* C12 witness: the same entry given twice, with a positive score towards a
\* recommended skill of positive demand weight whose prerequisites are met.
C12_Witness ==
    /\ call.op = "generate_learning_path"
    /\ Len(call.args[1]) = 2
    /\ call.args[1][1] = call.args[1][2]
    /\ \E i \in 1..Len(call.ret) :
        LET K == SkillNamed(call.ret[i].skill)
            t == GetTransferability(call.args[1][1], K.canonical_name)
        IN  /\ t > 0
            /\ K.prerequisites # <<>>
            /\ call.ret[i].prerequisites_met
            /\ WeightOfDemand(K.industry_demand) > 0
            /\ call.ret[i].priority_score = WeightOfDemand(K.industry_demand) + 200 + 2 * t

\* C13: priority is 'high' exactly when priority_score >= 4.0, 'medium' exactly
\* when 2.0 <= priority_score < 4.0 and 'low' exactly when priority_score < 2.0.
C13_PriorityLabel ==
    call.op = "generate_learning_path" =>
        \A i \in 1..Len(call.ret) :
            LET r == call.ret[i]
            IN  /\ r.priority = "high" <=> r.priority_score >= 400
                /\ r.priority = "medium" <=> (200 <= r.priority_score /\ r.priority_score < 400)
                /\ r.priority = "low" <=> r.priority_score < 200

\* C13 witness: one call returning a score of exactly 4.0 labelled 'high', a
\* score of exactly 2.0 labelled 'medium' and a score below 2.0 labelled 'low'.
C13_Witness ==
    /\ call.op = "generate_learning_path"
    /\ \E i \in 1..Len(call.ret) :
        call.ret[i].priority_score = 400 /\ call.ret[i].priority = "high"
    /\ \E i \in 1..Len(call.ret) :
        call.ret[i].priority_score = 200 /\ call.ret[i].priority = "medium"
    /\ \E i \in 1..Len(call.ret) :
        call.ret[i].priority_score < 200 /\ call.ret[i].priority = "low"

\* the skill an assess_proficiency call resolved, and its levels
AssessedLevels == Val(FindSkill(call.args[1])).proficiency_levels

\* the number of marker phrases of level i with a word, split on whitespace,
\* that occurs in the context, letter case ignored
MarkerCount(i) ==
    LET markers == AssessedLevels[i].markers
    IN  Cardinality({k \in 1..Len(markers) :
            \E w \in Range(Split(markers[k])) :
                IsSubstring(Lower(w), Lower(call.args[2]))})

\* C14: for a resolved skill, assess_proficiency returns the level with the
\* largest number of matching marker phrases, the first such level in the
\* stored level order on a tie, and None whenever every level scores 0.
C14_AssessProficiency ==
    (call.op = "assess_proficiency" /\ ~IsNone(FindSkill(call.args[1]))) =>
        /\ ~call.raised
        /\ IF \A i \in 1..Len(AssessedLevels) : MarkerCount(i) = 0
           THEN call.ret = None
           ELSE \E i \in 1..Len(AssessedLevels) :
                    /\ call.ret = Some(AssessedLevels[i].level)
                    /\ \A j \in 1..Len(AssessedLevels) : MarkerCount(j) <= MarkerCount(i)
                    /\ \A j \in 1..(i - 1) : MarkerCount(j) < MarkerCount(i)

\* the ids of a list that refer to a stored skill, in the order of the list
Stored(id) == id \in DOMAIN skills

Kept(ids) == SelectSeq(ids, Stored)

RecordsOf(ids) == [i \in 1..Len(ids) |-> skills[ids[i]]]

\* the authored links of a skill that refer to a stored skill
KeptLinks(S) == [id \in DOMAIN S.transferability \cap DOMAIN skills |-> S.transferability[id]]

\* the skill a one-name call resolved
Resolved == FindSkill(call.args[1])

\* C15: an id of a skill's parent, child, related, prerequisite or
\* transferability data that refers to no stored skill is skipped by every
\* read operation: the operation does not raise and returns what it returns on
\* the store with the dangling ids removed from the data.
C15_DanglingSkipped ==
    /\ call.op \in {"get_parents", "get_children", "get_related", "are_related",
                    "get_transferability", "analyze_gaps", "generate_learning_path"}
        => ~call.raised
    /\ (call.op = "get_parents" /\ ~IsNone(Resolved))
        => call.ret = RecordsOf(Kept(Val(Resolved).parent_skills))
    /\ (call.op = "get_children" /\ ~IsNone(Resolved))
        => call.ret = RecordsOf(Kept(Val(Resolved).child_skills))
    /\ (call.op = "get_related" /\ ~IsNone(Resolved))
        => call.ret = RecordsOf(Kept(Val(Resolved).related_skills))
    /\ (call.op = "are_related" /\ BothResolve)
        => LET A == Val(FromSkill)
               B == Val(ToSkill)
           IN  call.ret = (\/ InList(B.id, Kept(A.related_skills))
                           \/ InList(A.id, Kept(B.related_skills))
                           \/ A.subcategory = B.subcategory)
    /\ (call.op = "get_transferability" /\ BothResolve)
        => LET A == Val(FromSkill)
               B == Val(ToSkill)
           IN  call.ret = IF B.id \in DOMAIN KeptLinks(A) THEN KeptLinks(A)[B.id]
                          ELSE IF A.id \in DOMAIN KeptLinks(B) THEN KeptLinks(B)[A.id]
                          ELSE IF A.subcategory = B.subcategory THEN 50
                          ELSE IF A.category = B.category THEN 30
                          ELSE 0
    /\ call.op = "generate_learning_path"
        => \A i \in 1..Len(call.ret) :
            LET K == SkillNamed(call.ret[i].skill)
            IN  /\ call.ret[i].prerequisites_met =
                    (\A p \in Range(Kept(K.prerequisites)) :
                        PrerequisiteHeld(p, call.args[1]))
                /\ call.ret[i].why.kind = "builds_on" =>
                    /\ Kept(K.parent_skills) # <<>>
                    /\ call.ret[i].why.parent = Some(Kept(K.parent_skills)[1])

\* the file exists and has the documented structure: a 'categories' mapping,
\* 'subcategories' in every category, 'skills' in every subcategory and the
\* required fields in every skill object
WellFormed(file) ==
    /\ file.exists
    /\ "categories" \in DOMAIN file.data
    /\ \A c \in Range(file.data.categories) :
        /\ "subcategories" \in DOMAIN c
        /\ \A sub \in Range(c.subcategories) :
            /\ "skills" \in DOMAIN sub
            /\ \A data \in Range(sub.skills) : RequiredKeys \subseteq DOMAIN data

\* C16: the construction of a store from a missing or structurally invalid
\* document never completes: no usable store, empty or partly populated, comes
\* out of such a document.
C16_MalformedFails == status = "ready" => WellFormed(taxonomy_file)

\* C17: no query operation changes the store: through any sequence of calls
\* the skill records and the alias index stay what they were when loading
\* finished.
C17_QueriesLeaveStore ==
    [][status = "ready" =>
        (skills' = skills /\ order' = order /\ alias_map' = alias_map)]_vars

\* C17 witness: a gap analysis and a search have returned results on the
\* store of three skills.
C17_Witness ==
    /\ status = "ready"
    /\ Cardinality(DOMAIN skills) = 3
    /\ \/ call.op = "search_skills" /\ Len(call.ret) = 2
       \/ call.op = "analyze_gaps" /\ call.ret.transferable # <<>>

\* C19: are_related(a, b) is False if either name fails to resolve; otherwise
\* it is True exactly when a's related_skills holds b's id, or b's
\* related_skills holds a's id, or the two have the same subcategory; the
\* result is the same with a and b exchanged.
C19_AreRelated ==
    call.op = "are_related" =>
        /\ call.ret = IF ~BothResolve THEN FALSE
                      ELSE LET A == Val(FromSkill)
                               B == Val(ToSkill)
                           IN  \/ B.id \in Range(A.related_skills)
                               \/ A.id \in Range(B.related_skills)
                               \/ A.subcategory = B.subcategory
        /\ call.ret = AreRelated(call.args[2], call.args[1])

\* C19 witness: two skills of different subcategories found related because
\* the second one alone lists the first.
C19_Witness ==
    /\ call.op = "are_related"
    /\ BothResolve
    /\ LET A == Val(FromSkill)
           B == Val(ToSkill)
       IN  /\ B.id \notin Range(A.related_skills)
           /\ A.id \in Range(B.related_skills)
           /\ A.subcategory # B.subcategory
           /\ call.ret = TRUE

\* the edge list an edge call reads from the resolved skill
EdgeList ==
    IF call.op = "get_parents" THEN Val(Resolved).parent_skills
    ELSE IF call.op = "get_children" THEN Val(Resolved).child_skills
    ELSE Val(Resolved).related_skills

\* C20: for a resolved name, get_parents, get_children and get_related return
\* the stored records of the ids of parent_skills, child_skills and
\* related_skills that exist in the store, in the order of that list, the ids
\* without a stored record left out.
C20_EdgeRecords ==
    (call.op \in {"get_parents", "get_children", "get_related"} /\ ~IsNone(Resolved)) =>
        LET kept == SelectSeq(EdgeList, Stored)
        IN  /\ Len(call.ret) = Len(kept)
            /\ \A i \in 1..Len(kept) : call.ret[i] = skills[kept[i]]

\* C20 witness: get_parents returned the records of two different stored
\* parents in the order of the list, whose children list another order and a
\* dangling id.
C20_Witness ==
    /\ call.op = "get_parents"
    /\ ~IsNone(Resolved)
    /\ LET S == Val(Resolved)
       IN  /\ Len(S.parent_skills) = 2
           /\ S.parent_skills[1] # S.parent_skills[2]
           /\ \A i \in 1..2 : Stored(S.parent_skills[i])
           /\ S.child_skills # S.parent_skills
           /\ \E i \in 1..Len(S.child_skills) : ~Stored(S.child_skills[i])
           /\ call.ret = <<skills[S.parent_skills[1]], skills[S.parent_skills[2]]>>

\* the query occurs, letter case ignored, in the canonical name, an alias or a
\* tag of the stored skill of that id
MatchesQuery(id) ==
    LET S == skills[id]
    IN  \E n \in {S.canonical_name} \cup Range(S.aliases) \cup Range(S.tags) :
            IsSubstring(Lower(call.args[1]), Lower(n))

\* the number of elements a limit allows: none for a limit below 1
Allowed(limit) == IF limit < 0 THEN 0 ELSE limit

\* C21: search_skills(query, limit) returns, in store order and each once, the
\* skills whose canonical name, some alias or some tag contains the query,
\* letter case ignored, cut to the first limit of them: never more than limit
\* elements.
C21_SearchResults ==
    call.op = "search_skills" =>
        LET found == SelectSeq(order, MatchesQuery)
            n == IF Allowed(call.args[2]) < Len(found)
                 THEN Allowed(call.args[2]) ELSE Len(found)
        IN  /\ Len(call.ret) = n
            /\ \A i \in 1..n : call.ret[i] = skills[found[i]]
            /\ Len(call.ret) <= Allowed(call.args[2])

\* the transferability entries of the stored skills, one pair per entry
StoredLinks ==
    UNION {{<<id, to>> : to \in DOMAIN skills[id].transferability} : id \in DOMAIN skills}

\* C22: get_statistics reports total_skills equal to the number of skill
\* records the input document supplies, and average_transferability_links
\* equal to the number of transferability entries divided by total_skills, 0
\* for the empty store.
C22_Statistics ==
    call.op = "get_statistics" =>
        LET average == call.ret.average_transferability_links
        IN  /\ ~call.raised
            /\ call.ret.total_skills = Len(document)
            /\ IF call.ret.total_skills = 0
               THEN average.num = 0
               ELSE average.num * call.ret.total_skills
                        = Cardinality(StoredLinks) * average.den

\* the required keys reported both in transferable and in minor_gaps
InBothLists ==
    Range(call.ret.minor_gaps) \cap Range(RequiredOf(call.ret.transferable))

\* a missing required key whose best score lies in [0.50, 0.70), the scores
\* the minor_gaps filter selects
InMinorBand(r) == 50 <= BestScore(r) /\ BestScore(r) < 70

\* C23 as stated: the inputs the re-filtering for [0.50, 0.70) is said to act
\* on, those with a required key of such a best score, make analyze_gaps
\* report a required skill both in transferable and in minor_gaps.
C23_OverlapOccurs ==
    (call.op = "analyze_gaps" /\ \E r \in MissingKeys : InMinorBand(r)) =>
        InBothLists # {}

\* C23 amended: analyze_gaps never reports a required skill both in
\* transferable and in minor_gaps: minor_gaps is always empty, the entries it
\* is filtered from all having a score of at least 0.70.
C23_NoOverlap ==
    call.op = "analyze_gaps" =>
        /\ InBothLists = {}
        /\ call.ret.minor_gaps = <<>>
        /\ \A i \in 1..Len(call.ret.transferable) :
            call.ret.transferable[i].transferability >= 70

\* C23 witness: one call with a required key of best score in [0.50, 0.70),
\* reported as a critical gap, and another one reported as transferable.
C23_Witness ==
    /\ call.op = "analyze_gaps"
    /\ call.ret.transferable # <<>>
    /\ call.ret.minor_gaps = <<>>
    /\ \E r \in MissingKeys : InMinorBand(r) /\ InList(r, call.ret.critical_gaps)

\* the position in store iteration order of the skill a recommendation names
StorePosition(rec) ==
    CHOOSE k \in 1..Len(order) : skills[order[k]].canonical_name = rec.skill

\* C24: the list generate_learning_path returns is in non-increasing order of
\* priority_score, and two recommendations of equal priority_score appear in
\* the order of their skills in store iteration order.
C24_SortedStable ==
    call.op = "generate_learning_path" =>
        \A i \in 1..Len(call.ret), j \in 1..Len(call.ret) :
            i < j =>
                /\ call.ret[i].priority_score >= call.ret[j].priority_score
                /\ call.ret[i].priority_score = call.ret[j].priority_score
                    => StorePosition(call.ret[i]) < StorePosition(call.ret[j])

\* C24 witness: three recommendations, the last stored skill moved to the
\* front by its score and the two others, of equal score, left in store order.
C24_Witness ==
    /\ call.op = "generate_learning_path"
    /\ Len(call.ret) = 3
    /\ StorePosition(call.ret[1]) = 3
    /\ call.ret[1].priority_score > call.ret[2].priority_score
    /\ call.ret[2].priority_score = call.ret[3].priority_score
    /\ StorePosition(call.ret[2]) < StorePosition(call.ret[3])

\* the keys each loaded record carries, by position in load order
LoadedKeys == [i \in 1..loaded |-> LoadedNames(i)]

\* the position of the last record that carries the key k
LastCarrier(keys, k) ==
    CHOOSE i \in DOMAIN keys :
        k \in keys[i] /\ \A j \in DOMAIN keys : j > i => k \notin keys[j]

\* C25: after loading any sequence of skill records, the alias index has a key
\* k exactly when k is the lowercase form of the canonical name or of an alias
\* of some loaded record, its value is the id of the last record in load order
\* that carries k, and every value of the index is the id of a stored record.
C25_AliasIndex ==
    LET keys == LoadedKeys
    IN  /\ DOMAIN alias_map = UNION {keys[i] : i \in DOMAIN keys}
        /\ \A k \in DOMAIN alias_map :
            /\ alias_map[k] = document[LastCarrier(keys, k)].id
            /\ alias_map[k] \in DOMAIN skills

\* C25 witness: the load is over, two loaded records of different ids carry
\* one key, and the index holds the id of the later one.
C25_Witness ==
    /\ status = "ready"
    /\ \E i \in 1..loaded, j \in 1..loaded :
        /\ i < j
        /\ document[i].id # document[j].id
        /\ \E k \in LoadedKeys[i] \cap LoadedKeys[j] :
            /\ LastCarrier(LoadedKeys, k) = j
            /\ alias_map[k] = document[j].id

====
